---- MODULE Spec2Model ----
(***************************************************************************)
(* The Dropbox wrapper of Endless OS.                                      *)
(*                                                                         *)
(* PortalLauncher (src/portallauncher.py): routing of a target to the      *)
(* OpenFile / OpenURI methods of org.freedesktop.portal.OpenURI, and the   *)
(* handling of the Response signal of the returned request handle; alone   *)
(* (Spec), inside xdg-open (SpecXdg, src/xdg-open.py) and as two objects   *)
(* of one process (SpecPair).                                              *)
(*                                                                         *)
(* DropboxLauncher (src/eos-dropbox-app.py): the bus name, the launcher    *)
(* script, the monitor thread and the main-loop callbacks (SpecDropbox,    *)
(* and SpecDropboxFair with a fair scheduler).                             *)
(*                                                                         *)
(* Strings that the code takes apart (the target, the URI, the path) are   *)
(* sequences of one-character strings, so that urlparse() and geturl()     *)
(* are computed the way urllib computes them.                              *)
(***************************************************************************)
EXTENDS Integers, Sequences, FiniteSets, TLC

VARIABLES
    target,         \* the string given to PortalLauncher(target, ...)
    fs,             \* the paths that exist on the filesystem
    is_local_file,  \* self._is_local_file
    path,           \* self._path
    url,            \* self._url
    callback,       \* self._callback
    data,           \* self._data
    pc,             \* where run() is
    handle,         \* the local variable handle of run()
    fds,            \* the descriptors this process holds open
    calls,          \* the remote calls issued so far, in order
    results,        \* what each completed remote call produced, in order
    error,          \* the exception that left run(), if any
    subs,           \* the signal subscriptions registered on self._bus
    emitted,        \* how many Response signals the service has emitted
    pending,        \* signal deliveries scheduled on the main context
    delivered,      \* the signals handed to _response_received, in order
    invoked,        \* the callback invocations made, in order
    discarded,      \* the Response signals that found no subscription
    mainloop,       \* the GLib.MainLoop of the process that runs the launcher
    launchers,      \* two PortalLauncher objects of one process, by instance
    bus_subs,       \* the subscriptions on the connection the two share
    bus_emitted,    \* how many Response signals the service has emitted
    bus_pending,    \* signal deliveries scheduled on the main context
    called,         \* the callback invocations of the two, in order
    m_pc,           \* DropboxLauncher: where the main thread is
    name,           \* how this process stands with the name com.dropbox.Client
    bus_owner_id,   \* self._bus_owner_id
    quit_if_name_lost, \* self._quit_if_name_lost
    name_requests,  \* the calls of Gio.bus_own_name made so far, in order
    ever_acquired,  \* whether _name_acquired has been called
    late_loss,      \* whether the name was lost after it had been acquired
                    \* or requested with REPLACE
    launcher,       \* self._launcher: 0 for None, else a launcher script
    daemon,         \* self._daemon: 0 for None, else a daemon
    lprocs,         \* the launcher scripts started, by order of start
    dprocs,         \* the daemon each launcher script has started
    t_pc,           \* where each monitor thread is
    t_wait,         \* the process object each monitor thread waits on
    config_monitor, \* self._config_monitor: "active" while it reports events,
                    \* "off" when it is None or cancelled
    dir_monitor,    \* self._dir_monitor, likewise
    dir_subscribed, \* whether a request to open the directory is subscribed to
    dbx,            \* the Dropbox configuration and directory on disk
    script_present, \* whether DROPBOX_LAUNCHER exists
    early_quits     \* who called _quit while a child it waits for was running

\* the state of one PortalLauncher and of the bus it talks to
launcher_vars == <<target, fs, is_local_file, path, url, callback, data, pc,
                   handle, fds, calls, results, error, subs, emitted, pending,
                   delivered, invoked, discarded>>

\* the state of the process around it
process_vars == <<mainloop>>

\* the state of a pair of launchers sharing the session bus connection
pair_vars == <<launchers, bus_subs, bus_emitted, bus_pending, called>>

\* the state of a DropboxLauncher, its threads and child processes
dropbox_vars == <<m_pc, name, bus_owner_id, quit_if_name_lost, name_requests,
                  ever_acquired, late_loss, launcher, daemon, lprocs,
                  dprocs, t_pc, t_wait, config_monitor, dir_monitor,
                  dir_subscribed, dbx, script_present, early_quits>>

\* everything but the single launcher
outer_vars == <<process_vars, pair_vars, dropbox_vars>>

vars == <<launcher_vars, outer_vars>>

-----------------------------------------------------------------------------
(* Bounds of the model *)

\* the service emits at most this many Response signals
MaxResponses == 2

\* response codes range over 0..MaxCode (0, 1, 2 are the documented ones)
MaxCode == 3

\* a DropboxLauncher starts the launcher script at most this many times
MaxLaunches == 2

-----------------------------------------------------------------------------
(* Python values *)

None == "None"

\* truth value of a handle: None and the empty string are false
Truthy(v) == v # None /\ v # ""

-----------------------------------------------------------------------------
(* Character-level string helpers *)

LowerLetters == {"a", "d", "e", "f", "h", "i", "l", "p", "q", "t"}
UpperLetters == {"E", "F", "H", "I", "L", "P", "T"}
Digits == {"1"}

ToLowerChar(c) ==
    CASE c = "E" -> "e"
      [] c = "F" -> "f"
      [] c = "H" -> "h"
      [] c = "I" -> "i"
      [] c = "L" -> "l"
      [] c = "P" -> "p"
      [] c = "T" -> "t"
      [] OTHER -> c

\* str.lower()
Lower(s) == [i \in 1..Len(s) |-> ToLowerChar(s[i])]

\* s.find(c, from): the first index >= from holding c, 0 when there is none
\* (indices are 1-based here)
FindFrom(s, c, from) ==
    LET hits == {i \in from..Len(s) : s[i] = c}
    IN  IF hits = {} THEN 0 ELSE CHOOSE i \in hits : \A j \in hits : i <= j

Find(s, c) == FindFrom(s, c, 1)

\* s.rfind(c): the last index holding c, 0 when there is none
RFind(s, c) ==
    LET hits == {i \in 1..Len(s) : s[i] = c}
    IN  IF hits = {} THEN 0 ELSE CHOOSE i \in hits : \A j \in hits : i >= j

\* s[:n] and s[n:] with 0-based n as in Python
Prefix(s, n) == SubSeq(s, 1, n)
Suffix(s, n) == SubSeq(s, n + 1, Len(s))

StartsWith(s, p) == Len(s) >= Len(p) /\ SubSeq(s, 1, Len(p)) = p

-----------------------------------------------------------------------------
(* urllib.parse, as used by PortalLauncher.__init__ *)

scheme_chars == LowerLetters \cup UpperLetters \cup Digits \cup {"+", "-", "."}

s_file == <<"f", "i", "l", "e">>
s_http == <<"h", "t", "t", "p">>

\* the schemes of this model that urllib lists in uses_netloc / uses_params
uses_netloc == {<<>>, s_file, s_http}
uses_params == {<<>>, s_file, s_http}

\* the value of a one-element set; the steps of urlsplit() below are chained
\* through it so that each step works on the computed result of the one before
TheValue(S) == CHOOSE v \in S : TRUE

\* urlsplit(), scheme: the text before the first ":" when it is a letter
\* followed by scheme characters, lower-cased
split_scheme(u) ==
    LET i == Find(u, ":")
    IN  IF /\ i > 1
           /\ u[1] \in LowerLetters \cup UpperLetters
           /\ \A k \in 1..(i - 1) : u[k] \in scheme_chars
        THEN [scheme |-> Lower(Prefix(u, i - 1)), rest |-> Suffix(u, i)]
        ELSE [scheme |-> <<>>, rest |-> u]

\* urlsplit(), netloc: after a leading "//", up to the first of "/", "?", "#"
\* (_splitnetloc(url, 2))
split_netloc(s) ==
    LET delims == {k \in 3..Len(s.rest) : s.rest[k] \in {"/", "?", "#"}}
        stop == IF delims = {} THEN Len(s.rest) + 1
                ELSE CHOOSE k \in delims : \A j \in delims : k <= j
    IN  IF StartsWith(s.rest, <<"/", "/">>)
        THEN [scheme |-> s.scheme, netloc |-> SubSeq(s.rest, 3, stop - 1),
              rest |-> Suffix(s.rest, stop - 1)]
        ELSE [scheme |-> s.scheme, netloc |-> <<>>, rest |-> s.rest]

\* urlsplit(), fragment: url.split("#", 1)
split_fragment(s) ==
    LET h == Find(s.rest, "#")
    IN  [scheme |-> s.scheme, netloc |-> s.netloc,
         rest |-> IF h > 0 THEN Prefix(s.rest, h - 1) ELSE s.rest,
         fragment |-> IF h > 0 THEN Suffix(s.rest, h) ELSE <<>>]

\* urlsplit(), query: url.split("?", 1); what is left is the path
split_query(s) ==
    LET q == Find(s.rest, "?")
    IN  [scheme |-> s.scheme, netloc |-> s.netloc,
         path |-> IF q > 0 THEN Prefix(s.rest, q - 1) ELSE s.rest,
         query |-> IF q > 0 THEN Suffix(s.rest, q) ELSE <<>>,
         fragment |-> s.fragment]

\* urlsplit(): scheme, netloc, url (path), query, fragment
urlsplit(u) ==
    TheValue({split_query(c) :
        c \in {split_fragment(b) :
            b \in {split_netloc(a) : a \in {split_scheme(u)}}}})

\* _splitparams(): the index of the ";" that starts the params, 0 when none
splitparams_at(u) ==
    IF Find(u, "/") > 0 THEN FindFrom(u, ";", RFind(u, "/")) ELSE Find(u, ";")

\* urlparse(), params: the params of the last path segment, for the schemes
\* that use them
split_params(r) ==
    LET i == IF r.scheme \in uses_params THEN splitparams_at(r.path) ELSE 0
    IN  [scheme |-> r.scheme, netloc |-> r.netloc,
         path |-> IF i > 0 THEN Prefix(r.path, i - 1) ELSE r.path,
         params |-> IF i > 0 THEN Suffix(r.path, i) ELSE <<>>,
         query |-> r.query, fragment |-> r.fragment]

\* urlparse(): urlsplit() plus the params
urlparse(u) == TheValue({split_params(r) : r \in {urlsplit(u)}})

\* urlunparse(), params put back on the path
unparse_params(p) ==
    IF p.params # <<>> THEN p.path \o <<";">> \o p.params ELSE p.path

\* urlunsplit(), netloc: "//" netloc, and a "/" before a relative path
unsplit_netloc(p, u) ==
    IF \/ p.netloc # <<>>
       \/ /\ p.scheme # <<>>
          /\ p.scheme \in uses_netloc
          /\ ~StartsWith(u, <<"/", "/">>)
    THEN <<"/", "/">> \o p.netloc \o
         (IF u # <<>> /\ u[1] # "/" THEN <<"/">> \o u ELSE u)
    ELSE u

\* urlunsplit(), scheme, query and fragment
unsplit_rest(p, u) ==
    (IF p.scheme # <<>> THEN p.scheme \o <<":">> ELSE <<>>) \o u \o
    (IF p.query # <<>> THEN <<"?">> \o p.query ELSE <<>>) \o
    (IF p.fragment # <<>> THEN <<"#">> \o p.fragment ELSE <<>>)

\* ParseResult.geturl(): urlunparse() of the parsed parts
geturl(p) ==
    TheValue({unsplit_rest(p, b) :
        b \in {unsplit_netloc(p, a) : a \in {unparse_params(p)}}})

-----------------------------------------------------------------------------
(* The inputs of the model *)

t_path       == <<"/", "d">>
t_relative   == <<"d">>
t_empty      == <<>>
t_fragment   == <<"/", "d", "#", "f">>
t_params     == <<"d", ";", "p">>
t_digit      == <<"1", ":", "d">>
t_file       == <<"f", "i", "l", "e", ":", "/", "/", "/", "d">>
t_FILE       == <<"F", "I", "L", "E", ":", "/", "/", "/", "d">>
t_file_host  == <<"f", "i", "l", "e", ":", "/", "/", "e", "/", "d">>
t_http       == <<"h", "t", "t", "p", ":", "/", "/", "e", "/", "p">>
t_HTTP_query == <<"H", "T", "T", "P", ":", "/", "/", "e", "/", "p", "?", "q", "#", "f">>
t_opaque     == <<"a", ":", "d">>

Targets == {t_path, t_relative, t_empty, t_fragment, t_params, t_digit,
            t_file, t_FILE, t_file_host, t_http, t_HTTP_query, t_opaque}

\* the paths that may exist on the filesystem
KnownPaths == {<<"/", "d">>, <<"d">>}

\* (callback, data) as the callers of this repository pass them, and the
\* defaults of __init__
CallerArgs == {<<None, None>>,
               <<"done_callback", "mainloop">>,
               <<"_directory_handled", None>>}

\* request handles (object paths) the service may hand out or signal on
Handles == {"/request/1", "/request/2"}

\* what a successful remote call may return: a handle, the empty string,
\* or no value at all
Replies == Handles \cup {"", None}

\* D-Bus errors a remote call may fail with
GErrors == {"UNKNOWN_METHOD", "NO_REPLY"}

Codes == 0..MaxCode

file_prefix == <<"f", "i", "l", "e", ":", "/", "/">>

-----------------------------------------------------------------------------
(* PortalLauncher.__init__ *)

\* faulty variant: only the file scheme counts as local, a bare path does not
IsLocalFile_FileSchemeOnly(p) == p.scheme = s_file

IsLocalFile(p) == p.scheme = <<>> \/ p.scheme = s_file

\* PortalLauncher(target, callback, data)
NewPortalLauncher ==
    /\ target \in Targets
    /\ fs \in SUBSET KnownPaths
    /\ \E a \in CallerArgs : callback = a[1] /\ data = a[2]
    /\ \E parsed_url \in {urlparse(target)} :
          /\ is_local_file = IsLocalFile(parsed_url)
          /\ path = parsed_url.path
          /\ url = geturl(parsed_url)
    /\ pc = "constructed"
    /\ handle = None
    /\ fds = {}
    /\ calls = <<>>
    /\ results = <<>>
    /\ error = None
    /\ subs = <<>>
    /\ emitted = 0
    /\ pending = <<>>
    /\ delivered = <<>>
    /\ invoked = <<>>
    /\ discarded = {}

\* a launcher on its own: no main loop of a surrounding program is modelled
\* no pair of launchers is in play
NoPair ==
    /\ launchers = <<>>
    /\ bus_subs = <<>>
    /\ bus_emitted = 0
    /\ bus_pending = <<>>
    /\ called = <<>>

\* no DropboxLauncher is in play
NoDropbox ==
    /\ m_pc = "none"
    /\ name = "none"
    /\ bus_owner_id = 0
    /\ quit_if_name_lost = FALSE
    /\ name_requests = <<>>
    /\ ever_acquired = FALSE
    /\ late_loss = FALSE
    /\ launcher = 0
    /\ daemon = 0
    /\ lprocs = <<>>
    /\ dprocs = <<>>
    /\ t_pc = <<>>
    /\ t_wait = <<>>
    /\ config_monitor = "off"
    /\ dir_monitor = "off"
    /\ dir_subscribed = FALSE
    /\ dbx = "noconfig"
    /\ script_present = FALSE
    /\ early_quits = {}

Init ==
    /\ NewPortalLauncher
    /\ mainloop = "none"
    /\ NoPair
    /\ NoDropbox

-----------------------------------------------------------------------------
(* PortalLauncher.run and the two methods it calls *)

\* faulty variant: a local target is passed on without the file:// rewrite
OpenURIArgument_NoRewrite == url

\* the uri _run_open_uri_method passes to OpenURI
OpenURIArgument == IF ~is_local_file THEN url ELSE file_prefix \o path

\* _run_open_uri_method up to the blocking proxy call
CallOpenURI ==
    /\ calls' = Append(calls, [method |-> "OpenURI", arg |-> OpenURIArgument])
    /\ pc' = "OpenURI"

\* faulty variant: a missing local path falls back to OpenURI instead of raising
Run_FallsBackWhenMissing ==
    /\ pc = "constructed"
    /\ IF is_local_file /\ path \in fs
       THEN /\ fds' = fds \cup {path}
            /\ calls' = Append(calls, [method |-> "OpenFile", arg |-> path])
            /\ pc' = "OpenFile"
       ELSE /\ CallOpenURI
            /\ UNCHANGED fds
    /\ UNCHANGED <<discarded, target, fs, is_local_file, path, url, callback, data,
                   handle, results, error, subs, emitted, pending, delivered,
                   invoked>>

\* run() is entered: a local target goes to _run_open_file_method, which
\* opens the path and issues OpenFile; any other target goes to OpenURI
Run ==
    /\ pc = "constructed"
    /\ IF is_local_file
       THEN IF path \in fs
            THEN /\ fds' = fds \cup {path}
                 /\ calls' = Append(calls, [method |-> "OpenFile", arg |-> path])
                 /\ pc' = "OpenFile"
                 /\ UNCHANGED error
            ELSE /\ error' = "FileNotFoundError"
                 /\ pc' = "raised"
                 /\ UNCHANGED <<fds, calls>>
       ELSE /\ CallOpenURI
            /\ UNCHANGED <<fds, error>>
    /\ UNCHANGED <<discarded, target, fs, is_local_file, path, url, callback, data,
                   handle, results, subs, emitted, pending, delivered, invoked>>

\* the OpenFile call returns r; run() goes on to OpenURI when "not handle"
OpenFileReturns(r) ==
    /\ pc = "OpenFile"
    /\ results' = Append(results, [kind |-> "return", value |-> r])
    /\ IF r = None
       THEN \* "handle, = result.unpack()" of an empty reply
            /\ error' = "ValueError"
            /\ pc' = "raised"
            /\ UNCHANGED <<handle, calls>>
       ELSE /\ handle' = r
            /\ UNCHANGED error
            /\ IF Truthy(r)
               THEN pc' = "have_handle" /\ UNCHANGED calls
               ELSE CallOpenURI
    /\ UNCHANGED <<discarded, target, fs, is_local_file, path, url, callback, data,
                   fds, subs, emitted, pending, delivered, invoked>>

\* faulty variant: every failure of OpenFile falls back to OpenURI
OpenFileFails_AlwaysFallsBack(e) ==
    /\ pc = "OpenFile"
    /\ results' = Append(results, [kind |-> "error", value |-> e])
    /\ CallOpenURI
    /\ UNCHANGED <<discarded, target, fs, is_local_file, path, url, callback, data,
                   handle, fds, error, subs, emitted, pending, delivered,
                   invoked>>

\* the OpenFile call fails with the GError e
OpenFileFails(e) ==
    /\ pc = "OpenFile"
    /\ results' = Append(results, [kind |-> "error", value |-> e])
    /\ IF e # "UNKNOWN_METHOD"
       THEN /\ error' = e
            /\ pc' = "raised"
            /\ UNCHANGED calls
       ELSE /\ CallOpenURI
            /\ UNCHANGED error
    /\ UNCHANGED <<discarded, target, fs, is_local_file, path, url, callback, data,
                   handle, fds, subs, emitted, pending, delivered, invoked>>

\* faulty variant: OpenURI is issued again when it returned no handle
OpenURIReturns_Retries(r) ==
    /\ pc = "OpenURI"
    /\ results' = Append(results, [kind |-> "return", value |-> r])
    /\ handle' = r
    /\ IF Truthy(r)
       THEN pc' = "have_handle" /\ UNCHANGED calls
       ELSE CallOpenURI
    /\ UNCHANGED <<discarded, target, fs, is_local_file, path, url, callback, data,
                   fds, error, subs, emitted, pending, delivered, invoked>>

\* the OpenURI call returns r
OpenURIReturns(r) ==
    /\ pc = "OpenURI"
    /\ results' = Append(results, [kind |-> "return", value |-> r])
    /\ handle' = r
    /\ pc' = "have_handle"
    /\ UNCHANGED <<discarded, target, fs, is_local_file, path, url, callback, data,
                   fds, calls, error, subs, emitted, pending, delivered,
                   invoked>>

\* the OpenURI call fails with the GError e, which run() does not catch
OpenURIFails(e) ==
    /\ pc = "OpenURI"
    /\ results' = Append(results, [kind |-> "error", value |-> e])
    /\ error' = e
    /\ pc' = "raised"
    /\ UNCHANGED <<discarded, target, fs, is_local_file, path, url, callback, data,
                   handle, fds, calls, subs, emitted, pending, delivered,
                   invoked>>

\* the end of run(): subscribe to Response on the handle, or warn
Subscribe ==
    /\ pc = "have_handle"
    /\ subs' = IF Truthy(handle)
               THEN Append(subs, [path |-> handle, callback |-> callback,
                                  data |-> data])
               ELSE subs
    /\ pc' = "returned"
    /\ UNCHANGED <<discarded, target, fs, is_local_file, path, url, callback, data,
                   handle, fds, calls, results, error, emitted, pending,
                   delivered, invoked>>

-----------------------------------------------------------------------------
(* The Response signal *)

\* faulty variant: the subscription is made without an object path
Matches_AnyPath(sub, sigpath) == TRUE

\* the filter of signal_subscribe: sender, interface and member are fixed,
\* the object path is the handle
Matches(sub, sigpath) == sub.path = sigpath

\* the subscriptions, by index, that a signal on sigpath is delivered to
Matching(sigpath) ==
    SelectSeq([i \in 1..Len(subs) |-> i], LAMBDA i : Matches(subs[i], sigpath))

\* the service emits Response(c, results) on the object path h; the bus
\* connection schedules one delivery per subscription matching at that
\* moment, and discards the signal when there is none (noted with whether
\* run() already held h as its handle)
EmitResponse(h, c) ==
    /\ emitted < MaxResponses
    /\ emitted' = emitted + 1
    /\ pending' = pending \o
                  [k \in 1..Len(Matching(h)) |->
                      [sub |-> Matching(h)[k], path |-> h, code |-> c]]
    /\ discarded' = IF Matching(h) = <<>>
                    THEN discarded \cup {[path |-> h, returned |-> handle = h]}
                    ELSE discarded
    /\ UNCHANGED <<target, fs, is_local_file, path, url, callback, data, pc,
                   handle, fds, calls, results, error, subs, delivered,
                   invoked>>

\* faulty variant: the callback is invoked for the documented codes only
ResponseReceived_KnownCodes(code, cb, d) ==
    IF cb # None /\ code \in {0, 1, 2}
    THEN Append(invoked, [callback |-> cb, data |-> d])
    ELSE invoked

\* the callback invocations after _response_received ran with these arguments
ResponseReceived(code, cb, d) ==
    IF cb # None THEN Append(invoked, [callback |-> cb, data |-> d]) ELSE invoked

\* the main loop, idle once run() is over, dispatches a scheduled delivery
\* to _response_received with the user data given at subscription
DispatchResponse ==
    /\ pc \in {"returned", "raised"}
    /\ pending # <<>>
    /\ LET d == Head(pending)
           s == subs[d.sub]
       IN  /\ delivered' = Append(delivered, [path |-> d.path, code |-> d.code])
           /\ invoked' = ResponseReceived(d.code, s.callback, s.data)
    /\ pending' = Tail(pending)
    /\ UNCHANGED <<discarded, target, fs, is_local_file, path, url, callback, data, pc,
                   handle, fds, calls, results, error, subs, emitted>>

-----------------------------------------------------------------------------

Next ==
    \/ Run /\ UNCHANGED outer_vars
    \/ \E r \in Replies : OpenFileReturns(r) /\ UNCHANGED outer_vars
    \/ \E e \in GErrors : OpenFileFails(e) /\ UNCHANGED outer_vars
    \/ \E r \in Replies : OpenURIReturns(r) /\ UNCHANGED outer_vars
    \/ \E e \in GErrors : OpenURIFails(e) /\ UNCHANGED outer_vars
    \/ Subscribe /\ UNCHANGED outer_vars
    \/ \E h \in Handles, c \in Codes : EmitResponse(h, c) /\ UNCHANGED outer_vars
    \/ DispatchResponse /\ UNCHANGED outer_vars

Spec == Init /\ [][Next]_vars

-----------------------------------------------------------------------------
(* xdg-open (src/xdg-open.py): one PortalLauncher whose callback quits the  *)
(* main loop of the program                                                *)

\* the main loop runs and the idle callback open_url_on_idle has constructed
\* PortalLauncher(url, done_callback, mainloop)
XdgInit ==
    /\ NewPortalLauncher
    /\ callback = "done_callback"
    /\ data = "mainloop"
    /\ mainloop = "running"
    /\ NoPair
    /\ NoDropbox

\* done_callback(mainloop), called for each new entry of the invocation log
done_callback(before, after) ==
    IF Len(after) > Len(before) THEN "quit" ELSE mainloop

\* the running main loop dispatches a Response; the callback the launcher
\* was given is done_callback
XdgDispatchResponse ==
    /\ mainloop = "running"
    /\ DispatchResponse
    /\ mainloop' = done_callback(invoked, invoked')
    /\ UNCHANGED <<pair_vars, dropbox_vars>>

\* mainloop.run() has returned: sys.exit(0)
XdgExit ==
    /\ mainloop = "quit"
    /\ mainloop' = "exited"
    /\ UNCHANGED <<launcher_vars, pair_vars, dropbox_vars>>

XdgNext ==
    \/ mainloop = "running" /\ Run /\ UNCHANGED outer_vars
    \/ \E r \in Replies : OpenFileReturns(r) /\ UNCHANGED outer_vars
    \/ \E e \in GErrors : OpenFileFails(e) /\ UNCHANGED outer_vars
    \/ \E r \in Replies : OpenURIReturns(r) /\ UNCHANGED outer_vars
    \/ \E e \in GErrors : OpenURIFails(e) /\ UNCHANGED outer_vars
    \/ Subscribe /\ UNCHANGED outer_vars
    \/ \E h \in Handles, c \in Codes :
          mainloop # "exited" /\ EmitResponse(h, c) /\ UNCHANGED outer_vars
    \/ XdgDispatchResponse
    \/ XdgExit

SpecXdg == XdgInit /\ [][XdgNext]_vars

-----------------------------------------------------------------------------
(* Two PortalLauncher objects in one process. Gio.bus_get_sync hands both   *)
(* the same session bus connection, so their subscriptions sit side by     *)
(* side on it; each keeps its own fields.                                  *)

Instances == {1, 2}

\* (callback, data) given to each of the two
PairArgs == <<[callback |-> "callback_1", data |-> "data_1"],
              [callback |-> "callback_2", data |-> "data_2"]>>

\* the single launcher of the other specifications is not in play
NoLauncher ==
    /\ target = <<>>
    /\ fs = {}
    /\ is_local_file = FALSE
    /\ path = <<>>
    /\ url = <<>>
    /\ callback = None
    /\ data = None
    /\ pc = "none"
    /\ handle = None
    /\ fds = {}
    /\ calls = <<>>
    /\ results = <<>>
    /\ error = None
    /\ subs = <<>>
    /\ emitted = 0
    /\ pending = <<>>
    /\ delivered = <<>>
    /\ invoked = <<>>
    /\ discarded = {}

\* both objects constructed; each target is local or not, and the path of a
\* local one exists or not
PairInit ==
    /\ NoLauncher
    /\ mainloop = "running"
    /\ \E local \in [Instances -> BOOLEAN], exists \in [Instances -> BOOLEAN] :
          launchers = [i \in Instances |->
                          [is_local_file |-> local[i],
                           path_exists |-> exists[i],
                           callback |-> PairArgs[i].callback,
                           data |-> PairArgs[i].data,
                           pc |-> "constructed",
                           handle |-> None,
                           error |-> None]]
    /\ bus_subs = <<>>
    /\ bus_emitted = 0
    /\ bus_pending = <<>>
    /\ called = <<>>
    /\ NoDropbox

\* run() of instance i is entered
PairRun(i) ==
    /\ launchers[i].pc = "constructed"
    /\ launchers' = [launchers EXCEPT ![i] =
          IF launchers[i].is_local_file
          THEN IF launchers[i].path_exists
               THEN [@ EXCEPT !.pc = "OpenFile"]
               ELSE [@ EXCEPT !.pc = "raised", !.error = "FileNotFoundError"]
          ELSE [@ EXCEPT !.pc = "OpenURI"]]
    /\ UNCHANGED <<bus_subs, bus_emitted, bus_pending, called>>

\* the OpenFile call of instance i returns r
PairOpenFileReturns(i, r) ==
    /\ launchers[i].pc = "OpenFile"
    /\ launchers' = [launchers EXCEPT ![i] =
          IF r = None
          THEN [@ EXCEPT !.pc = "raised", !.error = "ValueError"]
          ELSE IF Truthy(r)
               THEN [@ EXCEPT !.pc = "have_handle", !.handle = r]
               ELSE [@ EXCEPT !.pc = "OpenURI", !.handle = r]]
    /\ UNCHANGED <<bus_subs, bus_emitted, bus_pending, called>>

\* the OpenFile call of instance i fails with e
PairOpenFileFails(i, e) ==
    /\ launchers[i].pc = "OpenFile"
    /\ launchers' = [launchers EXCEPT ![i] =
          IF e # "UNKNOWN_METHOD"
          THEN [@ EXCEPT !.pc = "raised", !.error = e]
          ELSE [@ EXCEPT !.pc = "OpenURI"]]
    /\ UNCHANGED <<bus_subs, bus_emitted, bus_pending, called>>

\* the OpenURI call of instance i returns r
PairOpenURIReturns(i, r) ==
    /\ launchers[i].pc = "OpenURI"
    /\ launchers' = [launchers EXCEPT ![i] =
          IF r = None
          THEN [@ EXCEPT !.pc = "raised", !.error = "ValueError"]
          ELSE [@ EXCEPT !.pc = "have_handle", !.handle = r]]
    /\ UNCHANGED <<bus_subs, bus_emitted, bus_pending, called>>

\* the OpenURI call of instance i fails with e
PairOpenURIFails(i, e) ==
    /\ launchers[i].pc = "OpenURI"
    /\ launchers' = [launchers EXCEPT ![i] = [@ EXCEPT !.pc = "raised", !.error = e]]
    /\ UNCHANGED <<bus_subs, bus_emitted, bus_pending, called>>

\* faulty variant: the callback and data live in state shared by all
\* instances, so every subscription carries those of the first
PairSubscription_SharedState(i) ==
    [path |-> launchers[i].handle, self |-> 1,
     callback |-> launchers[1].callback, data |-> launchers[1].data]

\* what signal_subscribe registers for instance i: the handle as object path,
\* the bound method self._response_received, which reads self._callback
\* and self._data
PairSubscription(i) ==
    [path |-> launchers[i].handle, self |-> i,
     callback |-> launchers[i].callback, data |-> launchers[i].data]

\* the rest of run() of instance i
PairSubscribe(i) ==
    /\ launchers[i].pc = "have_handle"
    /\ bus_subs' = IF Truthy(launchers[i].handle)
                   THEN Append(bus_subs, PairSubscription(i))
                   ELSE bus_subs
    /\ launchers' = [launchers EXCEPT ![i] = [@ EXCEPT !.pc = "returned"]]
    /\ UNCHANGED <<bus_emitted, bus_pending, called>>

\* the subscriptions on the shared connection that a signal on sigpath matches
PairMatching(sigpath) ==
    SelectSeq([k \in 1..Len(bus_subs) |-> k],
              LAMBDA k : Matches(bus_subs[k], sigpath))

\* the service emits Response(c, results) on the object path h
PairEmitResponse(h, c) ==
    /\ bus_emitted < MaxResponses
    /\ bus_emitted' = bus_emitted + 1
    /\ bus_pending' = bus_pending \o
                      [k \in 1..Len(PairMatching(h)) |->
                          [sub |-> PairMatching(h)[k], path |-> h, code |-> c]]
    /\ UNCHANGED <<launchers, bus_subs, called>>

\* the main loop hands a scheduled delivery to the _response_received of
\* the instance that subscribed, which calls its callback
PairDispatchResponse ==
    /\ bus_pending # <<>>
    /\ LET d == Head(bus_pending)
           s == bus_subs[d.sub]
       IN  called' = IF s.callback # None
                     THEN Append(called, [self |-> s.self, callback |-> s.callback,
                                          data |-> s.data, path |-> d.path])
                     ELSE called
    /\ bus_pending' = Tail(bus_pending)
    /\ UNCHANGED <<launchers, bus_subs, bus_emitted>>

PairNext ==
    \/ \E i \in Instances : PairRun(i) /\ UNCHANGED <<launcher_vars, process_vars, dropbox_vars>>
    \/ \E i \in Instances, r \in Replies :
          PairOpenFileReturns(i, r) /\ UNCHANGED <<launcher_vars, process_vars, dropbox_vars>>
    \/ \E i \in Instances, e \in GErrors :
          PairOpenFileFails(i, e) /\ UNCHANGED <<launcher_vars, process_vars, dropbox_vars>>
    \/ \E i \in Instances, r \in Replies :
          PairOpenURIReturns(i, r) /\ UNCHANGED <<launcher_vars, process_vars, dropbox_vars>>
    \/ \E i \in Instances, e \in GErrors :
          PairOpenURIFails(i, e) /\ UNCHANGED <<launcher_vars, process_vars, dropbox_vars>>
    \/ \E i \in Instances : PairSubscribe(i) /\ UNCHANGED <<launcher_vars, process_vars, dropbox_vars>>
    \/ \E h \in Handles, c \in Codes :
          PairEmitResponse(h, c) /\ UNCHANGED <<launcher_vars, process_vars, dropbox_vars>>
    \/ PairDispatchResponse /\ UNCHANGED <<launcher_vars, process_vars, dropbox_vars>>

SpecPair == PairInit /\ [][PairNext]_vars

-----------------------------------------------------------------------------
(* DropboxLauncher (src/eos-dropbox-app.py): ownership of the bus name      *)
(* com.dropbox.Client, the launcher script and the daemon it starts, the   *)
(* thread that monitors them, and the callbacks of the main loop.          *)
(*                                                                         *)
(* The main loop runs one callback at a time. The monitor thread runs      *)
(* beside it and shares the fields _launcher and _daemon with it without   *)
(* any lock, so each statement of the thread, and each read of those       *)
(* fields in _quit, is a step of its own. Program locations are named      *)
(* after their line in the source.                                         *)

\* the states of ~/.dropbox/info.json and of the directory it leads to
DropboxStates == {"noconfig",   \* no configuration file
                  "invalid",    \* a configuration file that is not JSON
                  "nodir",      \* a configuration, but no directory is found
                  "missing",    \* a configured path that does not exist
                  "present",    \* a configured or default path, a directory
                  "notdir"}     \* a configured path that is not a directory

\* os.path.exists(DROPBOX_CONFIG)
ConfigExists == dbx # "noconfig"

\* get_dropbox_directory() raises: json_data is unbound after the ValueError
GetDirectoryRaises == dbx = "invalid"

\* get_dropbox_directory() returns a path (else it returns None)
DirectoryFound == dbx \in {"missing", "present", "notdir"}

\* Gio.FileMonitorEvent values the handlers tell apart, and one other
ConfigEvents == {"CHANGES_DONE_HINT", "DELETED", "CHANGED"}
DirEvents == {"CREATED", "CHANGED"}

\* the launcher scripts, and with them the monitor threads, started so far
Launched == 1..Len(lprocs)

\* psutil: the process objects that stand for a running process
LauncherRunning(k) == k \in Launched /\ lprocs[k] = "running"
DaemonRunning(k) == k \in Launched /\ dprocs[k] = "running"

\* whether a launcher script or a daemon it started is running
ChildRunning == \E k \in Launched : LauncherRunning(k) \/ DaemonRunning(k)

\* _quit is called by one that is meant to wait for the children to end:
\* _directory_handled (for any child) or monitor thread k (for launcher
\* script k); the caller is recorded when what it waits for is running
EarlyQuit(by, k) ==
    IF (IF k = 0 THEN ChildRunning ELSE LauncherRunning(k))
    THEN early_quits \cup {by}
    ELSE early_quits

\* "if self._daemon" at line 194: on to terminate() at 195 or to 197
TestDaemon == IF daemon # 0 THEN "195" ELSE "197"

\* _quit is entered: "if self._launcher" at line 192
EnterQuit == IF launcher # 0 THEN "193" ELSE TestDaemon

\* DropboxLauncher() and run() up to mainloop.run(): the name is requested
\* without REPLACE and the main loop waits for events
DropboxInit ==
    /\ NoLauncher
    /\ NoPair
    /\ mainloop = "running"
    /\ m_pc = "loop"
    /\ name = "requested"
    /\ bus_owner_id = 1
    /\ quit_if_name_lost = FALSE
    /\ name_requests = <<[replace |-> FALSE, after_loss |-> FALSE,
                          directory |-> FALSE]>>
    /\ ever_acquired = FALSE
    /\ late_loss = FALSE
    /\ launcher = 0
    /\ daemon = 0
    /\ lprocs = <<>>
    /\ dprocs = <<>>
    /\ t_pc = <<>>
    /\ t_wait = <<>>
    /\ config_monitor = "off"
    /\ dir_monitor = "off"
    /\ dir_subscribed = FALSE
    /\ dbx \in DropboxStates
    /\ script_present \in BOOLEAN
    /\ early_quits = {}

\* the main loop is running and no callback is being run
MainIdle == mainloop = "running" /\ m_pc = "loop"

\* what _open_dropbox_directory can do: return, raise, call _exitOnError
\* ("exit"), or run a PortalLauncher that subscribes ("subscribed"), gets
\* no handle ("unhandled") or raises
OpenDirectoryOutcomes ==
    CASE GetDirectoryRaises -> {"raised"}
      [] ~DirectoryFound -> {"returned"}
      [] dbx \in {"missing", "notdir"} -> {"exit"}
      [] dbx = "present" -> {"subscribed", "unhandled", "raised"}

\* what _open_dropbox_when_created can do: the same when the directory
\* exists, and set up a monitor ("monitor") when it does not yet
WhenCreatedOutcomes ==
    CASE GetDirectoryRaises -> {"raised"}
      [] ~DirectoryFound -> {"returned"}
      [] dbx = "missing" -> {"monitor"}
      [] dbx \in {"present", "notdir"} -> OpenDirectoryOutcomes

\* the effect of _open_dropbox_directory with outcome o on the request
\* subscription and on where the main thread goes: _exitOnError calls
\* _quit(1), otherwise the callback goes on or is left by the exception
OpenDropboxDirectory(o) ==
    /\ dir_subscribed' = (dir_subscribed \/ o = "subscribed")
    /\ m_pc' = IF o = "exit" THEN EnterQuit ELSE "loop"
    /\ UNCHANGED early_quits

\* the effect of _open_dropbox_when_created with outcome o
OpenDropboxWhenCreated(o) ==
    /\ OpenDropboxDirectory(o)
    /\ dir_monitor' = IF o = "monitor" THEN "active" ELSE dir_monitor

\* _name_acquired: the name is ours; _launch_dropbox starts the launcher
\* script and its monitor thread and sets up the configuration monitor, or
\* exits when the script is not there
NameAcquired ==
    /\ MainIdle
    /\ name \in {"requested", "waiting"}
    /\ script_present => Len(lprocs) < MaxLaunches
    /\ name' = "owned"
    /\ quit_if_name_lost' = TRUE
    /\ ever_acquired' = TRUE
    /\ IF script_present
       THEN /\ launcher' = Len(lprocs) + 1
            /\ lprocs' = Append(lprocs, "running")
            /\ dprocs' = Append(dprocs, "none")
            /\ t_pc' = Append(t_pc, "255")
            /\ t_wait' = Append(t_wait, 0)
            /\ config_monitor' = "active"
            /\ UNCHANGED <<m_pc, early_quits>>
       ELSE /\ m_pc' = EnterQuit
            /\ UNCHANGED early_quits
            /\ UNCHANGED <<launcher, lprocs, dprocs, t_pc, t_wait, config_monitor>>
    /\ UNCHANGED <<mainloop, bus_owner_id, name_requests, late_loss,
                   daemon, dir_monitor, dir_subscribed, dbx, script_present>>

\* _name_lost: quit when told to by the flag; else ask again with REPLACE
\* when no directory is found, else open the directory once it is there
NameLost ==
    /\ MainIdle
    /\ name \in {"requested", "owned"}
    /\ late_loss' = (late_loss \/ ever_acquired
                       \/ \E k \in 1..Len(name_requests) : name_requests[k].replace)
    /\ IF quit_if_name_lost
       THEN /\ name' = "waiting"
            /\ m_pc' = EnterQuit
            /\ UNCHANGED early_quits
            /\ UNCHANGED <<bus_owner_id, quit_if_name_lost, name_requests,
                           dir_monitor, dir_subscribed>>
       ELSE IF GetDirectoryRaises
       THEN /\ name' = "waiting"
            /\ UNCHANGED <<bus_owner_id, quit_if_name_lost, name_requests,
                           dir_monitor, dir_subscribed, m_pc, early_quits>>
       ELSE IF ~DirectoryFound
       THEN \* _try_own_bus_name(replace=True)
            /\ name' = "requested"
            /\ bus_owner_id' = bus_owner_id + 1
            /\ quit_if_name_lost' = TRUE
            /\ name_requests' = Append(name_requests,
                                       [replace |-> TRUE, after_loss |-> TRUE,
                                        directory |-> DirectoryFound])
            /\ UNCHANGED <<dir_monitor, dir_subscribed, m_pc, early_quits>>
       ELSE /\ name' = "waiting"
            /\ \E o \in WhenCreatedOutcomes : OpenDropboxWhenCreated(o)
            /\ UNCHANGED <<bus_owner_id, quit_if_name_lost, name_requests>>
    /\ UNCHANGED <<mainloop, ever_acquired, launcher, daemon, lprocs, dprocs,
                   t_pc, t_wait, config_monitor, dbx, script_present>>

\* _on_config_changed
ConfigChanged(event_type) ==
    /\ MainIdle
    /\ config_monitor = "active"
    /\ IF event_type # "CHANGES_DONE_HINT"
       THEN \* "and self._dir_monitor": cancelling a monitor that is None or
            \* cancelled already changes nothing
            /\ dir_monitor' = IF event_type = "DELETED" THEN "off" ELSE dir_monitor
            /\ UNCHANGED <<config_monitor, dir_subscribed, m_pc, early_quits>>
       ELSE /\ config_monitor' = "off"
            /\ IF ConfigExists
               THEN \E o \in WhenCreatedOutcomes : OpenDropboxWhenCreated(o)
               ELSE UNCHANGED <<dir_monitor, dir_subscribed, m_pc, early_quits>>
    /\ UNCHANGED <<mainloop, name, bus_owner_id, quit_if_name_lost, name_requests,
                   ever_acquired, late_loss, launcher, daemon, lprocs,
                   dprocs, t_pc, t_wait, dbx, script_present>>

\* _on_dir_changed: the monitor is cancelled only when
\* _open_dropbox_directory comes back
DirChanged(event_type) ==
    /\ MainIdle
    /\ dir_monitor = "active"
    /\ IF event_type # "CREATED"
       THEN UNCHANGED <<dir_monitor, dir_subscribed, m_pc, early_quits>>
       ELSE \E o \in OpenDirectoryOutcomes :
               /\ OpenDropboxDirectory(o)
               /\ dir_monitor' = IF o \in {"returned", "subscribed", "unhandled"}
                                 THEN "off" ELSE dir_monitor
    /\ UNCHANGED <<mainloop, name, bus_owner_id, quit_if_name_lost, name_requests,
                   ever_acquired, late_loss, launcher, daemon, lprocs,
                   dprocs, t_pc, t_wait, config_monitor, dbx, script_present>>

\* "if self._launcher or self._daemon: return"
DirectoryHandledKeepsRunning == launcher # 0 \/ daemon # 0

\* _directory_handled, called with the Response to a request this process
\* made to open the directory
DirectoryHandled ==
    /\ MainIdle
    /\ dir_subscribed
    /\ IF DirectoryHandledKeepsRunning
       THEN UNCHANGED <<m_pc, early_quits>>
       ELSE /\ m_pc' = EnterQuit
            /\ early_quits' = EarlyQuit("_directory_handled", 0)
    /\ UNCHANGED <<mainloop, name, bus_owner_id, quit_if_name_lost, name_requests,
                   ever_acquired, late_loss, launcher, daemon, lprocs,
                   dprocs, t_pc, t_wait, config_monitor, dir_monitor,
                   dir_subscribed, dbx, script_present>>

\* psutil terminate() on a process object: a running process ends
Terminate(procs, k) == [procs EXCEPT ![k] = IF @ = "running" THEN "exited" ELSE @]

QuitLocations == {"193", "195", "197"}

\* one step of _quit from location loc to location nxt. 193 and 195 read
\* again the field that was tested, to call terminate() on it, which raises
\* AttributeError when the monitor thread has set it to None in between;
\* 197 quits the main loop and leaves through sys.exit
QuitStep(loc, nxt) ==
    \/ /\ loc = "193"
       /\ IF launcher = 0
          THEN nxt = "raised" /\ UNCHANGED lprocs
          ELSE nxt = TestDaemon /\ lprocs' = Terminate(lprocs, launcher)
       /\ UNCHANGED <<dprocs, mainloop>>
    \/ /\ loc = "195"
       /\ IF daemon = 0
          THEN nxt = "raised" /\ UNCHANGED dprocs
          ELSE nxt = "197" /\ dprocs' = Terminate(dprocs, daemon)
       /\ UNCHANGED <<lprocs, mainloop>>
    \/ /\ loc = "197"
       /\ nxt = "exit"
       /\ mainloop' = IF mainloop = "running" THEN "quit" ELSE mainloop
       /\ UNCHANGED <<lprocs, dprocs>>

\* where a step of _quit leaves the main thread: an exception ends the
\* callback and the loop goes on; sys.exit ends the main thread
MainAfter(nxt) ==
    CASE nxt = "raised" -> "loop"
      [] nxt = "exit" -> "exited"
      [] OTHER -> nxt

\* _quit called from a callback of the main loop
MainQuit ==
    /\ m_pc \in QuitLocations
    /\ \E nxt \in QuitLocations \cup {"raised", "exit"} :
          /\ QuitStep(m_pc, nxt)
          /\ m_pc' = MainAfter(nxt)
    /\ UNCHANGED <<name, bus_owner_id, quit_if_name_lost, name_requests,
                   ever_acquired, late_loss, launcher, daemon,
                   t_pc, t_wait, config_monitor, dir_monitor, dir_subscribed,
                   dbx, script_present, early_quits>>

\* mainloop.run() has returned to run() after a quit from the monitor thread
MainReturns ==
    /\ mainloop = "quit"
    /\ m_pc = "loop"
    /\ m_pc' = "exited"
    /\ UNCHANGED <<mainloop, name, bus_owner_id, quit_if_name_lost, name_requests,
                   ever_acquired, late_loss, launcher, daemon, lprocs,
                   dprocs, t_pc, t_wait, config_monitor, dir_monitor,
                   dir_subscribed, dbx, script_present, early_quits>>

-----------------------------------------------------------------------------
(* _monitorLauncherThreadFunc, one thread per started launcher script *)

\* thread i moves to location nxt; the main thread and the bus are left alone
ThreadGoes(i, nxt) ==
    /\ t_pc' = [t_pc EXCEPT ![i] = nxt]
    /\ UNCHANGED <<m_pc, name, bus_owner_id, quit_if_name_lost, name_requests,
                   ever_acquired, late_loss, config_monitor,
                   dir_monitor, dir_subscribed, dbx, script_present>>

\* lines 255-260: self._launcher.pid, self._launcher.is_running() and
\* self._launcher.wait(), called on the object the field holds
ThreadWaitLauncher(i) ==
    /\ i \in Launched
    /\ t_pc[i] = "255"
    /\ ThreadGoes(i, IF launcher = 0 THEN "crashed"
                     ELSE IF LauncherRunning(launcher) THEN "260" ELSE "261")
    /\ t_wait' = [t_wait EXCEPT ![i] = launcher]
    /\ UNCHANGED <<mainloop, launcher, daemon, lprocs, dprocs, early_quits>>

\* faulty variant: the thread does not wait for the launcher script
ThreadLauncherOver_NoWait(i) ==
    /\ i \in Launched
    /\ t_pc[i] = "260"
    /\ ThreadGoes(i, "261")
    /\ UNCHANGED <<mainloop, launcher, daemon, lprocs, dprocs, t_wait, early_quits>>

\* the wait() of line 260 returns: that launcher script is over
ThreadLauncherOver(i) ==
    /\ i \in Launched
    /\ t_pc[i] = "260"
    /\ ~LauncherRunning(t_wait[i])
    /\ ThreadGoes(i, "261")
    /\ UNCHANGED <<mainloop, launcher, daemon, lprocs, dprocs, t_wait, early_quits>>

\* line 261: self._launcher = None
ThreadClearLauncher(i) ==
    /\ i \in Launched
    /\ t_pc[i] = "261"
    /\ launcher' = 0
    /\ ThreadGoes(i, "265")
    /\ UNCHANGED <<mainloop, daemon, lprocs, dprocs, t_wait, early_quits>>

\* find_dropbox_daemon(): a running process named dropbox, None without one
find_dropbox_daemon ==
    IF \E k \in Launched : DaemonRunning(k)
    THEN {k \in Launched : DaemonRunning(k)}
    ELSE {0}

\* lines 265-266: self._daemon = find_dropbox_daemon(); if self._daemon
ThreadFindDaemon(i) ==
    /\ i \in Launched
    /\ t_pc[i] = "265"
    /\ \E d \in find_dropbox_daemon :
          /\ daemon' = d
          /\ ThreadGoes(i, IF d # 0 THEN "268" ELSE "274")
    /\ UNCHANGED <<mainloop, launcher, lprocs, dprocs, t_wait, early_quits>>

\* lines 267-268: self._daemon.pid, self._daemon.wait()
ThreadWaitDaemon(i) ==
    /\ i \in Launched
    /\ t_pc[i] = "268"
    /\ ThreadGoes(i, IF daemon = 0 THEN "crashed" ELSE "268:wait")
    /\ t_wait' = [t_wait EXCEPT ![i] = daemon]
    /\ UNCHANGED <<mainloop, launcher, daemon, lprocs, dprocs, early_quits>>

\* the wait() of line 268 returns: that daemon is over
ThreadDaemonOver(i) ==
    /\ i \in Launched
    /\ t_pc[i] = "268:wait"
    /\ ~DaemonRunning(t_wait[i])
    /\ ThreadGoes(i, "269")
    /\ UNCHANGED <<mainloop, launcher, daemon, lprocs, dprocs, t_wait, early_quits>>

\* line 269: self._daemon = None
ThreadClearDaemon(i) ==
    /\ i \in Launched
    /\ t_pc[i] = "269"
    /\ daemon' = 0
    /\ ThreadGoes(i, "274")
    /\ UNCHANGED <<mainloop, launcher, lprocs, dprocs, t_wait, early_quits>>

\* line 274: self._quit(), up to its first test
ThreadCallsQuit(i) ==
    /\ i \in Launched
    /\ t_pc[i] = "274"
    /\ early_quits' = EarlyQuit("_monitorLauncherThreadFunc", i)
    /\ ThreadGoes(i, EnterQuit)
    /\ UNCHANGED <<mainloop, launcher, daemon, lprocs, dprocs, t_wait>>

\* where a step of _quit leaves the thread: an exception or sys.exit ends it
ThreadAfter(nxt) ==
    CASE nxt = "raised" -> "crashed"
      [] nxt = "exit" -> "done"
      [] OTHER -> nxt

\* _quit run by thread i
ThreadQuit(i) ==
    /\ i \in Launched
    /\ t_pc[i] \in QuitLocations
    /\ \E nxt \in QuitLocations \cup {"raised", "exit"} :
          /\ QuitStep(t_pc[i], nxt)
          /\ ThreadGoes(i, ThreadAfter(nxt))
    /\ UNCHANGED <<launcher, daemon, t_wait, early_quits>>

\* all the steps of thread i
MonitorLauncherThreadFunc(i) ==
    \/ ThreadWaitLauncher(i)
    \/ ThreadLauncherOver(i)
    \/ ThreadClearLauncher(i)
    \/ ThreadFindDaemon(i)
    \/ ThreadWaitDaemon(i)
    \/ ThreadDaemonOver(i)
    \/ ThreadClearDaemon(i)
    \/ ThreadCallsQuit(i)
    \/ ThreadQuit(i)

-----------------------------------------------------------------------------
(* What happens around the process *)

\* nothing of the program changes
ProgramUnchanged ==
    UNCHANGED <<mainloop, m_pc, name, bus_owner_id, quit_if_name_lost,
                name_requests, ever_acquired, late_loss, launcher,
                daemon, t_pc, t_wait, config_monitor, dir_monitor,
                dir_subscribed, early_quits>>

\* the launcher script k ends, having started the daemon or not; it starts
\* none while one is running
LauncherExits(k, started) ==
    /\ LauncherRunning(k)
    /\ started => \A j \in Launched : ~DaemonRunning(j)
    /\ lprocs' = [lprocs EXCEPT ![k] = "exited"]
    /\ dprocs' = [dprocs EXCEPT ![k] = IF started THEN "running" ELSE @]
    /\ ProgramUnchanged
    /\ UNCHANGED <<dbx, script_present>>

\* the daemon started by launcher script k ends
DaemonExits(k) ==
    /\ DaemonRunning(k)
    /\ dprocs' = [dprocs EXCEPT ![k] = "exited"]
    /\ ProgramUnchanged
    /\ UNCHANGED <<lprocs, dbx, script_present>>

\* what the user and the daemon do on disk: the configuration is written,
\* the directory is created
FileChanges ==
    [noconfig |-> {"invalid", "nodir", "missing", "present", "notdir"},
     invalid |-> {},
     nodir |-> {"present"},
     missing |-> {"present", "notdir"},
     present |-> {},
     notdir |-> {}]

\* the configuration file or the directory changes on disk
FilesChange(d) ==
    /\ d \in FileChanges[dbx]
    /\ dbx' = d
    /\ ProgramUnchanged
    /\ UNCHANGED <<lprocs, dprocs, script_present>>

DropboxNext ==
    \/ NameAcquired /\ UNCHANGED <<launcher_vars, pair_vars>>
    \/ NameLost /\ UNCHANGED <<launcher_vars, pair_vars>>
    \/ \E e \in ConfigEvents : ConfigChanged(e) /\ UNCHANGED <<launcher_vars, pair_vars>>
    \/ \E e \in DirEvents : DirChanged(e) /\ UNCHANGED <<launcher_vars, pair_vars>>
    \/ DirectoryHandled /\ UNCHANGED <<launcher_vars, pair_vars>>
    \/ MainQuit /\ UNCHANGED <<launcher_vars, pair_vars>>
    \/ MainReturns /\ UNCHANGED <<launcher_vars, pair_vars>>
    \/ \E i \in 1..MaxLaunches : ThreadWaitLauncher(i) /\ UNCHANGED <<launcher_vars, pair_vars>>
    \/ \E i \in 1..MaxLaunches : ThreadLauncherOver(i) /\ UNCHANGED <<launcher_vars, pair_vars>>
    \/ \E i \in 1..MaxLaunches : ThreadClearLauncher(i) /\ UNCHANGED <<launcher_vars, pair_vars>>
    \/ \E i \in 1..MaxLaunches : ThreadFindDaemon(i) /\ UNCHANGED <<launcher_vars, pair_vars>>
    \/ \E i \in 1..MaxLaunches : ThreadWaitDaemon(i) /\ UNCHANGED <<launcher_vars, pair_vars>>
    \/ \E i \in 1..MaxLaunches : ThreadDaemonOver(i) /\ UNCHANGED <<launcher_vars, pair_vars>>
    \/ \E i \in 1..MaxLaunches : ThreadClearDaemon(i) /\ UNCHANGED <<launcher_vars, pair_vars>>
    \/ \E i \in 1..MaxLaunches : ThreadCallsQuit(i) /\ UNCHANGED <<launcher_vars, pair_vars>>
    \/ \E i \in 1..MaxLaunches : ThreadQuit(i) /\ UNCHANGED <<launcher_vars, pair_vars>>
    \/ \E k \in 1..MaxLaunches, started \in BOOLEAN :
          LauncherExits(k, started) /\ UNCHANGED <<launcher_vars, pair_vars>>
    \/ \E k \in 1..MaxLaunches :
          DaemonExits(k) /\ UNCHANGED <<launcher_vars, pair_vars>>
    \/ \E d \in DropboxStates : FilesChange(d) /\ UNCHANGED <<launcher_vars, pair_vars>>

SpecDropbox == DropboxInit /\ [][DropboxNext]_vars

\* the scheduler lets every thread that can take a step take one, and a
\* callback of the main loop that is inside _quit go on
DropboxFairness ==
    /\ \A i \in 1..MaxLaunches :
          WF_vars(MonitorLauncherThreadFunc(i) /\ UNCHANGED <<launcher_vars, pair_vars>>)
    /\ WF_vars(MainQuit /\ UNCHANGED <<launcher_vars, pair_vars>>)

SpecDropboxFair == SpecDropbox /\ DropboxFairness

-----------------------------------------------------------------------------
(* Vocabulary of the properties *)

\* the target is local as the specification defines it: no scheme, or the
\* scheme file
LocalTarget == urlparse(target).scheme \in {<<>>, s_file}

\* the path component of the target
TargetPath == urlparse(target).path

\* the remote call number i has completed with this outcome
Failed(i, e) == i <= Len(results) /\ results[i] = [kind |-> "error", value |-> e]

\* the non-empty handles the remote calls of this run returned
ReturnedHandles ==
    {results[i].value : i \in {j \in 1..Len(results) :
                                   /\ results[j].kind = "return"
                                   /\ Truthy(results[j].value)}}

\* run() is over, by return or by exception
RunOver == pc \in {"returned", "raised"}

-----------------------------------------------------------------------------
(* Properties *)

\* C1: for one run() that obtained a non-empty handle the completion
\* callback is invoked at most once, however many Response signals the
\* service emits for the handle.
C1_CallbackAtMostOnce == Len(invoked) <= 1

\* C2: the callback is invoked only after a Response for the exact handle
\* returned to run() was delivered: every invocation is matched by a delivery
\* to the handler, every delivery is on a non-empty handle that a remote call
\* of this run returned, and nothing is invoked while run() is executing.
C2_CallbackOnlyAfterResponse ==
    /\ Len(invoked) <= Len(delivered)
    /\ \A j \in 1..Len(delivered) :
          delivered[j].path \in ReturnedHandles /\ delivered[j].path = handle
    /\ ~RunOver => invoked = <<>>

C2_Witness ==
    /\ Len(invoked) = 1
    /\ Len(delivered) = 1
    /\ emitted = MaxResponses
    /\ delivered[1].path = handle

\* C3: for a local target whose path exists, when OpenFile fails with the
\* unknown-method error, run() does not raise on it and the next remote call
\* is OpenURI with "file://" followed by the path of the target.
C3_UnknownMethodFallsBack ==
    (LocalTarget /\ TargetPath \in fs /\ Failed(1, "UNKNOWN_METHOD")) =>
        /\ calls[1].method = "OpenFile"
        /\ Len(calls) = 2
        /\ calls[2] = [method |-> "OpenURI", arg |-> file_prefix \o TargetPath]
        /\ Len(results) = 1 => (pc = "OpenURI" /\ error = None)

C3_Witness ==
    /\ target = t_path
    /\ Failed(1, "UNKNOWN_METHOD")
    /\ calls[2].arg = t_file
    /\ pc = "returned"

\* C4: OpenURI is issued only for a non-local target, or for a local target
\* right after OpenFile failed with the unknown-method error; no OpenURI
\* follows an OpenFile that completed successfully.
C4_OpenURIOnlyNonLocalOrFallback ==
    \A i \in 1..Len(calls) :
        calls[i].method = "OpenURI" =>
            \/ ~LocalTarget /\ i = 1
            \/ /\ LocalTarget
               /\ i = 2
               /\ calls[1].method = "OpenFile"
               /\ Failed(1, "UNKNOWN_METHOD")

\* C5: when the target is local and its path does not exist, run() raises
\* the not-found error, issues no remote call, makes no subscription and
\* the callback is never invoked.
C5_MissingPathRaises ==
    (LocalTarget /\ TargetPath \notin fs /\ pc # "constructed") =>
        /\ pc = "raised"
        /\ error = "FileNotFoundError"
        /\ calls = <<>>
        /\ subs = <<>>
        /\ invoked = <<>>

C5_Witness ==
    /\ target = t_fragment
    /\ fs = {t_relative}
    /\ pc = "raised"
    /\ emitted = MaxResponses

\* C6: a remote-call failure other than unknown-method on OpenFile leaves
\* run() as that error; no remote call follows it, no subscription exists
\* and the callback is never invoked.
C6_OtherFailuresPropagate ==
    \A i \in 1..Len(results) :
        (/\ results[i].kind = "error"
         /\ ~(calls[i].method = "OpenFile" /\ results[i].value = "UNKNOWN_METHOD")) =>
            /\ pc = "raised"
            /\ error = results[i].value
            /\ Len(calls) = i
            /\ subs = <<>>
            /\ pending = <<>>
            /\ invoked = <<>>

C6_Witness ==
    /\ Len(calls) = 2
    /\ Failed(1, "UNKNOWN_METHOD")
    /\ Failed(2, "UNKNOWN_METHOD")
    /\ emitted = MaxResponses

\* C7: for a local target whose path exists the first remote call of run()
\* is OpenFile; for a non-local target OpenFile is never issued and the one
\* remote call is OpenURI with the URI of the target.
C7_RoutingByTargetKind ==
    /\ (LocalTarget /\ TargetPath \in fs /\ pc # "constructed") =>
          /\ calls # <<>>
          /\ calls[1] = [method |-> "OpenFile", arg |-> TargetPath]
    /\ (~LocalTarget /\ pc # "constructed") =>
          calls = <<[method |-> "OpenURI", arg |-> geturl(urlparse(target))]>>

C7_Witness ==
    /\ target = t_HTTP_query
    /\ Len(calls) = 1
    /\ calls[1].arg # target
    /\ pc = "returned"

\* C8: when a remote call of run() returns an empty or absent handle, run()
\* makes no subscription and the callback is never invoked.
C8_EmptyHandleNoSubscription ==
    (\E i \in 1..Len(results) :
        results[i].kind = "return" /\ ~Truthy(results[i].value)) =>
            subs = <<>> /\ invoked = <<>>

\* C9: for every response code delivered for the subscribed handle, the
\* handler invokes the stored callback, with exactly the data given at
\* construction, once per delivery, and raises nothing.
C9_EveryCodeInvokesCallback ==
    /\ callback # None =>
          /\ Len(invoked) = Len(delivered)
          /\ \A k \in 1..Len(invoked) :
                invoked[k] = [callback |-> callback, data |-> data]
    /\ callback = None => invoked = <<>>
    /\ delivered # <<>> => (pc = "returned" /\ error = None)

C9_Witness ==
    /\ callback = "done_callback"
    /\ Len(delivered) = 1
    /\ delivered[1].code > 2
    /\ invoked = <<[callback |-> "done_callback", data |-> "mainloop"]>>

\* C10: a run() issues at most two remote calls, OpenFile then OpenURI when
\* there are two, and makes at most one subscription.
C10_AtMostTwoCallsOneSubscription ==
    /\ Len(calls) <= 2
    /\ Len(calls) = 2 => (calls[1].method = "OpenFile" /\ calls[2].method = "OpenURI")
    /\ Len(subs) <= 1

C10_Witness ==
    /\ Len(calls) = 2
    /\ Len(subs) = 1
    /\ emitted = MaxResponses

\* C11: the subscription is single-shot: once a Response for the handle has
\* been handed to the response handler, no subscription made by run() is
\* left registered on the bus connection.
C11_SubscriptionCancelledOnDelivery == delivered # <<>> => subs = <<>>

C18_NoResponseLost == \A d \in discarded : ~d.returned

\* C14: xdg-open terminates for every target: once run() is over, whether it
\* returned with a handle, returned with an empty handle or raised, the main
\* loop is quit or a subscription is registered whose Response will quit it.
C14_XdgOpenTerminates == (RunOver /\ mainloop = "running") => subs # <<>>

\* C13: two launchers with requests in flight are independent: a callback
\* invocation caused by a Response on some path is the invocation of the
\* instance holding that path as its handle, with that instance's callback
\* and data, and every instance that subscribed keeps exactly its own
\* subscription, whatever is delivered to the other.
C13_InstancesIndependent ==
    /\ \A k \in 1..Len(called) :
          /\ called[k].path = launchers[called[k].self].handle
          /\ called[k].callback = PairArgs[called[k].self].callback
          /\ called[k].data = PairArgs[called[k].self].data
    /\ \A i \in DOMAIN launchers :
          (launchers[i].pc = "returned" /\ Truthy(launchers[i].handle)) =>
             Cardinality({k \in 1..Len(bus_subs) :
                             bus_subs[k] = [path |-> launchers[i].handle,
                                            self |-> i,
                                            callback |-> PairArgs[i].callback,
                                            data |-> PairArgs[i].data]}) = 1

C13_Witness ==
    /\ launchers # <<>>
    /\ \A i \in Instances : launchers[i].pc = "returned"
    /\ Truthy(launchers[1].handle)
    /\ Truthy(launchers[2].handle)
    /\ launchers[1].handle # launchers[2].handle
    /\ Len(bus_subs) = 2
    /\ bus_emitted = MaxResponses
    /\ bus_pending = <<>>
    /\ called = <<[self |-> 2, callback |-> "callback_2", data |-> "data_2",
                   path |-> launchers[2].handle]>>

\* C15: a process that started the launcher script never calls _quit from
\* _directory_handled while a launcher script or a daemon it started is
\* running, under every interleaving with the monitor thread.
C15_NoQuitWhileChildRuns == "_directory_handled" \notin early_quits

\* C16: the name is requested at most twice, with REPLACE at most once and
\* then as the second request, made on a loss of the name with no directory
\* found; and once the name was acquired or requested with REPLACE, a loss
\* of the name makes the process quit: its callback does not come back to
\* a running main loop.
C16_NameOwnershipNeverLoops ==
    /\ Len(name_requests) <= 2
    /\ \A k \in 1..Len(name_requests) :
          name_requests[k].replace =>
             (k = 2 /\ name_requests[k].after_loss /\ ~name_requests[k].directory)
    /\ late_loss => ~MainIdle

\* C17: the launcher script is started at most once, and _launcher or
\* _daemon is set only after the name has been acquired.
C17_LaunchedOnceAfterAcquired ==
    /\ Len(lprocs) <= 1
    /\ (launcher # 0 \/ daemon # 0) => ever_acquired

====
